---------------------------- MODULE Spec2Model ----------------------------
(***************************************************************************)
(* A model of transformer_architecture.ipynb: the mask builders, the       *)
(* positional encoding table, scaled dot-product attention, multi-head     *)
(* attention and the encoder / decoder stacks.                             *)
(*                                                                         *)
(* Tensors are records [shape, data]: data is the row-major flattening of  *)
(* the elements, indices are 0-based as in the source.                     *)
(***************************************************************************)
EXTENDS Integers, Sequences, FiniteSets, TLC

VARIABLES
    pc,                 \* position of the scenario being run
    size,               \* argument of create_look_ahead_mask
    seq,                \* argument of create_padding_mask
    mask,               \* value returned by the last mask builder; the mask argument of attention
    q, k, v,            \* arguments of scaled_dot_product_attention
    output,             \* first value it returns
    attention_weights,  \* second value it returns
    num_words,          \* arguments of get_positional_encodings
    embed_dim,
    angles_rad,         \* the array get_positional_encodings updates in place
    pos_encoding,       \* the table it returns
    first_table,        \* the table returned by the first of two calls
    calls,              \* calls of get_positional_encodings completed
    ctor,               \* the constructor call made: class and arguments
    layer,              \* the object it returned, None before and on an exception
    error,              \* the exception it raised, None otherwise
    x,                  \* the tensor passed to split_heads
    split,              \* split_heads(x, batch_size)
    concat_attention,   \* the recombination of split
    transformer,        \* the Transformer object
    inp,                \* Transformer.call: the input token ids
    tar,                \* Transformer.call: the target token ids
    enc_padding_mask,   \* the mask argument of the encoder
    look_ahead_mask,    \* the look-ahead mask argument of the decoder
    dec_padding_mask,   \* the padding mask argument of the decoder
    enc_output,         \* the encoder output given to the decoder
    layer_i,            \* the loop variable i of Encoder.call and Decoder.call
    heap,               \* the dictionary objects created so far
    blocks,             \* the (block1, block2) pairs the layers returned in this call
    returned,           \* what the completed calls of the Transformer returned
    values,             \* the distinct vectors computed so far
    locals              \* the locals of the last layer call at its return

maskVars == <<size, seq, mask>>

attnVars == <<q, k, v, output, attention_weights>>

posVars == <<num_words, embed_dim, angles_rad, pos_encoding, first_table, calls>>

ctorVars == <<ctor, layer, error, x, split, concat_attention>>

stackVars == <<transformer, inp, tar, enc_padding_mask, look_ahead_mask,
               dec_padding_mask, enc_output, layer_i, heap, blocks, returned,
               values, locals>>

\* Python's None
None == [none |-> TRUE]

\* the variables of a part of the program that is not running
IdleMask ==
    size = 0 /\ seq = None /\ mask = None

IdleAttn ==
    /\ q = None /\ k = None /\ v = None
    /\ output = None /\ attention_weights = None

IdlePos ==
    /\ num_words = 0 /\ embed_dim = 0 /\ angles_rad = None
    /\ pos_encoding = None /\ first_table = None /\ calls = 0

IdleCtor ==
    /\ ctor = None /\ layer = None /\ error = None
    /\ x = None /\ split = None /\ concat_attention = None

IdleStack ==
    /\ transformer = None /\ inp = None /\ tar = None
    /\ enc_padding_mask = None /\ look_ahead_mask = None
    /\ dec_padding_mask = None /\ enc_output = None
    /\ layer_i = 0 /\ heap = <<>> /\ blocks = <<>> /\ returned = <<>>
    /\ values = <<>> /\ locals = None

(***************************************************************************)
(* Bounds of the model.                                                    *)
(***************************************************************************)
MaxSize == 3
MaxMaskBatch == 2
MaxMaskLen == 2

\* token ids fed to create_padding_mask; 0 is the pad id
TokenIds == {0, 1, 2}

(***************************************************************************)
(* Tensor primitives (the library operations the notebook calls).          *)
(***************************************************************************)
RECURSIVE Prod(_)
Prod(s) ==
    IF s = <<>> THEN 1 ELSE Head(s) * Prod(Tail(s))

\* row-major stride of axis d (1-based axis number) in a tensor of this shape
Stride(shape, d) ==
    Prod(SubSeq(shape, d + 1, Len(shape)))

\* multi-index (0-based entries) of the flat position n (0-based)
Unravel(n, shape) ==
    [d \in 1..Len(shape) |-> (n \div Stride(shape, d)) % shape[d]]

RECURSIVE RavelFrom(_, _, _)
RavelFrom(idx, shape, d) ==
    IF d > Len(shape) THEN 0
    ELSE idx[d] * Stride(shape, d) + RavelFrom(idx, shape, d + 1)

\* flat position (0-based) of a multi-index
Ravel(idx, shape) ==
    RavelFrom(idx, shape, 1)

\* the sequence f as an explicit tuple of its elements
Tuple(f) ==
    SubSeq(f, 1, Len(f))

\* the tensor of this shape whose element at multi-index idx is Elem(idx)
MkTensor(shape, Elem(_)) ==
    [shape |-> shape,
     data  |-> Tuple([n \in 1..Prod(shape) |-> Elem(Unravel(n - 1, shape))])]

\* t[idx]
At(t, idx) ==
    t.data[Ravel(idx, t.shape) + 1]

InRange(t, idx) ==
    /\ Len(idx) = Len(t.shape)
    /\ \A d \in 1..Len(idx) : idx[d] \in 0..(t.shape[d] - 1)

\* tf.ones(shape)
ones(shape) ==
    MkTensor(shape, LAMBDA idx : 1)

\* tf.linalg.band_part(input, num_lower, num_upper) on a matrix: element
\* (m, n) is kept when (num_lower < 0 or m - n <= num_lower) and
\* (num_upper < 0 or n - m <= num_upper), and is zero otherwise
band_part(input, num_lower, num_upper) ==
    MkTensor(input.shape,
             LAMBDA idx :
                 IF /\ (num_lower < 0 \/ idx[1] - idx[2] <= num_lower)
                    /\ (num_upper < 0 \/ idx[2] - idx[1] <= num_upper)
                 THEN At(input, idx) ELSE 0)

\* c - t, elementwise
ScalarMinus(c, t) ==
    [shape |-> t.shape, data |-> Tuple([n \in DOMAIN t.data |-> c - t.data[n]])]

\* tf.cast(tf.math.equal(t, c), tf.float32)
EqualCast(t, c) ==
    [shape |-> t.shape,
     data  |-> Tuple([n \in DOMAIN t.data |-> IF t.data[n] = c THEN 1 ELSE 0])]

\* the number of elements a -1 entry of a reshape target stands for
Inferred(n, shape) ==
    LET known == Prod([d \in 1..Len(shape) |->
                          IF shape[d] = -1 THEN 1 ELSE shape[d]])
    IN  IF known = 0 THEN 0 ELSE n \div known

\* tf.reshape(t, shape): the same row-major data under a new shape, at most
\* one entry of which may be -1
Reshape(t, shape) ==
    [shape |-> Tuple([d \in 1..Len(shape) |->
                         IF shape[d] = -1 THEN Inferred(Len(t.data), shape)
                         ELSE shape[d]]),
     data  |-> t.data]

\* whether tf.reshape accepts the target shape
ReshapeOk(t, shape) ==
    /\ Cardinality({d \in 1..Len(shape) : shape[d] = -1}) <= 1
    /\ Prod(Reshape(t, shape).shape) = Len(t.data)

\* tf.transpose(t, perm): axis d of the result is axis perm[d] of t
\* (perm holds 0-based axis numbers, as in the source)
Transpose(t, perm) ==
    LET newshape == Tuple([d \in 1..Len(perm) |-> t.shape[perm[d] + 1]])
        Src(idx) == [a \in 1..Len(perm) |->
                        idx[CHOOSE d \in 1..Len(perm) : perm[d] + 1 = a]]
    IN  MkTensor(newshape, LAMBDA idx : At(t, Src(idx)))

(***************************************************************************)
(* Masking.                                                                *)
(***************************************************************************)
\* seq[:, tf.newaxis, tf.newaxis, :] of a rank-2 tensor
NewAxes(t) ==
    [shape |-> <<t.shape[1], 1, 1, t.shape[2]>>, data |-> t.data]

\* the comparison inverted: marks the tokens that are not padding
create_padding_mask_not_equal(s) ==
    NewAxes(ScalarMinus(1, EqualCast(s, 0)))

create_padding_mask(s) ==
    NewAxes(EqualCast(s, 0))

\* the upper band taken directly (diagonal included) instead of 1 - lower band
create_look_ahead_mask_with_diagonal(n) ==
    band_part(ones(<<n, n>>), 0, -1)

create_look_ahead_mask(n) ==
    ScalarMinus(1, band_part(ones(<<n, n>>), -1, 0))

\* rank-2 batches of token ids: (batch, length)
RECURSIVE SeqsOfLen(_, _)
SeqsOfLen(S, n) ==
    IF n = 0 THEN {<<>>}
    ELSE {Append(s, e) : s \in SeqsOfLen(S, n - 1), e \in S}

TokenBatches ==
    UNION {{[shape |-> <<b, l>>, data |-> d] : d \in SeqsOfLen(TokenIds, b * l)} :
              b \in 1..MaxMaskBatch, l \in 1..MaxMaskLen}

(***************************************************************************)
(* Scaled dot-product attention on float32 numbers.                        *)
(*                                                                         *)
(* Scores are held in half units (the integer x stands for x / 2), which   *)
(* is exact for the depths of Depths; attention weights are held in        *)
(* millionths.  Fl32 rounds to the 24-bit significand of float32, which is *)
(* what decides the sum of a score and the additive mask.                  *)
(***************************************************************************)
MaskBias == -1000000000

MaxKeyLen == 2

QueryLens == {1, 2}
Depths == {1, 4}
QFill == {-1, 1}
KFill == {0, 2}

RECURSIVE SumSeq(_)
SumSeq(s) ==
    IF s = <<>> THEN 0 ELSE Head(s) + SumSeq(Tail(s))

RECURSIVE MaxSeq(_)
MaxSeq(s) ==
    IF Len(s) = 1 THEN s[1]
    ELSE LET m == MaxSeq(Tail(s)) IN IF Head(s) > m THEN Head(s) ELSE m

Abs(a) ==
    IF a < 0 THEN -a ELSE a

\* the spacing of float32 numbers around magnitude n: the least power of two
\* u with n < 2^24 * u
RECURSIVE UlpFrom(_, _)
UlpFrom(n, u) ==
    IF n \div u < 16777216 THEN u ELSE UlpFrom(n, 2 * u)

\* x rounded to float32 (round to nearest, ties to even)
Fl32(a) ==
    LET n  == Abs(a)
        u  == UlpFrom(n, 1)
        lo == (n \div u) * u
        r  == n - lo
        up == \/ 2 * r > u
              \/ (2 * r = u /\ (n \div u) % 2 = 1)
        m  == IF up THEN lo + u ELSE lo
    IN  IF a < 0 THEN -m ELSE m

\* tf.math.sqrt(dk) for the depths of Depths
Sqrt(n) ==
    CHOOSE r \in 0..n : r * r = n

\* 1000 * exp(d / 2) for d <= 0 in half units, never 0 above the float32
\* underflow of exp (exp(x) = 0 for x <= -104) and 0 from there on
ExpTable ==
    <<1000, 606, 367, 223, 135, 82, 49, 30, 18, 11, 6, 4, 2, 1>>

Exp(d) ==
    IF d <= -208 THEN 0
    ELSE IF -d < Len(ExpTable) THEN ExpTable[1 - d]
    ELSE 1

\* tf.matmul(a, b, transpose_b=True) of matrices a: (n, d) and b: (m, d)
MatMulTransposeB(a, b) ==
    MkTensor(<<a.shape[1], b.shape[1]>>,
             LAMBDA idx :
                 SumSeq([t \in 1..a.shape[2] |->
                            At(a, <<idx[1], t - 1>>) * At(b, <<idx[2], t - 1>>)]))

\* tf.matmul(a, b) of matrices a: (n, m) and b: (m, d)
MatMul(a, b) ==
    MkTensor(<<a.shape[1], b.shape[2]>>,
             LAMBDA idx :
                 SumSeq([t \in 1..a.shape[2] |->
                            At(a, <<idx[1], t - 1>>) * At(b, <<t - 1, idx[2]>>)]))

\* the shape two shapes of equal rank broadcast to
BroadcastShape(s1, s2) ==
    Tuple([d \in 1..Len(s1) |-> IF s1[d] = 1 THEN s2[d] ELSE s1[d]])

Broadcastable(s1, s2) ==
    /\ Len(s1) = Len(s2)
    /\ \A d \in 1..Len(s1) : s1[d] = s2[d] \/ s1[d] = 1 \/ s2[d] = 1

\* the element of t that broadcasting reads at multi-index idx
AtBroadcast(t, idx) ==
    At(t, [d \in 1..Len(idx) |-> IF t.shape[d] = 1 THEN 0 ELSE idx[d]])

\* a + b in float32, b broadcast against a
AddFl32(a, b) ==
    MkTensor(BroadcastShape(a.shape, b.shape),
             LAMBDA idx : Fl32(AtBroadcast(a, idx) + AtBroadcast(b, idx)))

\* mask * -1e9, in half units
ScaleMask(m) ==
    [shape |-> m.shape,
     data  |-> Tuple([i \in DOMAIN m.data |-> Fl32(m.data[i] * 2 * MaskBias)])]

\* score_matrix / tf.math.sqrt(dk), in half units
ScaleScores(score_matrix, dk) ==
    [shape |-> score_matrix.shape,
     data  |-> Tuple([i \in DOMAIN score_matrix.data |->
                         Fl32((2 * score_matrix.data[i]) \div Sqrt(dk))])]

\* tf.nn.softmax(x, axis=-1) of a matrix: exp(x - max) / sum(exp(x - max)),
\* in millionths
Softmax(scores) ==
    LET Row(i) == Tuple([j \in 1..scores.shape[2] |-> At(scores, <<i, j - 1>>)])
        E(i)   == Tuple([j \in 1..scores.shape[2] |->
                            Exp(Fl32(Row(i)[j] - MaxSeq(Row(i))))])
    IN  MkTensor(scores.shape,
                 LAMBDA idx : (E(idx[1])[idx[2] + 1] * 1000000)
                                  \div SumSeq(E(idx[1])))

\* the mask argument ignored
scaled_attention_scores_unmasked(qq, kk, mm) ==
    ScaleScores(MatMulTransposeB(qq, kk), kk.shape[2])

\* scaled_attention_scores as it stands before the softmax
scaled_attention_scores(qq, kk, mm) ==
    LET score_matrix == MatMulTransposeB(qq, kk)
        dk == kk.shape[2]
        scaled == ScaleScores(score_matrix, dk)
    IN  IF mm # None THEN AddFl32(scaled, ScaleMask(mm)) ELSE scaled

\* the pair (output, attention_weights)
scaled_dot_product_attention(qq, kk, vv, mm) ==
    LET weights == Softmax(scaled_attention_scores(qq, kk, mm))
    IN  [output |-> MatMul(weights, vv), attention_weights |-> weights]

\* a matrix whose row i is filled with fill[i + 1]
RowFilled(fill, d) ==
    MkTensor(<<Len(fill), d>>, LAMBDA idx : fill[idx[1] + 1])

MaskChoices(lq, lk) ==
    {None} \cup
    UNION {{[shape |-> <<r, lk>>, data |-> d] : d \in SeqsOfLen({0, 1}, r * lk)} :
              r \in {1, lq}}

InitAttn ==
    /\ pc = "attn_start"
    /\ \E lq \in QueryLens, lk \in 1..MaxKeyLen, d \in Depths :
          /\ q \in {RowFilled(f, d) : f \in SeqsOfLen(QFill, lq)}
          /\ k \in {RowFilled(f, d) : f \in SeqsOfLen(KFill, lk)}
          /\ v = RowFilled([j \in 1..lk |-> j], d)
          /\ mask \in MaskChoices(lq, lk)
    /\ output = None /\ attention_weights = None
    /\ size = 0 /\ seq = None
    /\ num_words = 0 /\ embed_dim = 0 /\ angles_rad = None
    /\ pos_encoding = None /\ first_table = None /\ calls = 0
    /\ ctor = None /\ layer = None /\ error = None
    /\ x = None /\ split = None /\ concat_attention = None
    /\ IdleStack

CallScaledDotProductAttention ==
    /\ pc = "attn_start"
    /\ LET r == scaled_dot_product_attention(q, k, v, mask)
       IN  /\ output' = r.output
           /\ attention_weights' = r.attention_weights
    /\ pc' = "attn_done"
    /\ UNCHANGED <<q, k, v, mask, size, seq, posVars, ctorVars, stackVars>>

NextAttn ==
    CallScaledDotProductAttention

(***************************************************************************)
(* Positional encoding.                                                    *)
(*                                                                         *)
(* Real numbers are held as expressions: [pos, num, d] stands for the      *)
(* angle pos / 10000^(num / d), [f, arg] for the function f applied to the *)
(* expression arg.                                                         *)
(***************************************************************************)
MaxPositions == 4
MaxEmbedDim == 4

Apply(f, arg) ==
    [f |-> f, arg |-> arg]

\* pos / np.power(10000, (2 * (i//2) / d))
get_angles(pos, i, d) ==
    [pos |-> pos, num |-> 2 * (i \div 2), d |-> d]

\* get_angles on pos = arange(num_words)[:, newaxis], i = arange(embed_dim)[newaxis, :]
AnglesTable(nw, ed) ==
    MkTensor(<<nw, ed>>, LAMBDA idx : get_angles(idx[1], idx[2], ed))

\* a[:, start::2] = f(a[:, start::2])
AssignColumns(a, start, f) ==
    MkTensor(a.shape,
             LAMBDA idx :
                 IF idx[2] >= start /\ (idx[2] - start) % 2 = 0
                 THEN Apply(f, At(a, idx)) ELSE At(a, idx))

\* the second assignment applied to the even columns again
AssignOddColumns_on_even(a) ==
    AssignColumns(a, 0, "cos")

AssignEvenColumns(a) ==
    AssignColumns(a, 0, "sin")

AssignOddColumns(a) ==
    AssignColumns(a, 1, "cos")

\* tf.cast(angles_rad[np.newaxis, ...], dtype=tf.float32)
CastNewAxis(a) ==
    [shape |-> <<1>> \o a.shape,
     data  |-> Tuple([n \in DOMAIN a.data |-> Apply("float32", a.data[n])])]

get_positional_encodings(nw, ed) ==
    CastNewAxis(AssignOddColumns(AssignEvenColumns(AnglesTable(nw, ed))))

InitPos ==
    /\ pc = "pos_start"
    /\ num_words \in 1..MaxPositions
    /\ embed_dim \in 1..MaxEmbedDim
    /\ angles_rad = None
    /\ pos_encoding = None
    /\ first_table = None
    /\ calls = 0
    /\ size = 0 /\ seq = None /\ mask = None
    /\ q = None /\ k = None /\ v = None
    /\ output = None /\ attention_weights = None
    /\ ctor = None /\ layer = None /\ error = None
    /\ x = None /\ split = None /\ concat_attention = None
    /\ IdleStack

\* the call of get_angles
PosGetAngles ==
    /\ pc = "pos_start"
    /\ angles_rad' = AnglesTable(num_words, embed_dim)
    /\ pc' = "pos_angles"
    /\ UNCHANGED <<num_words, embed_dim, pos_encoding, first_table, calls>>
    /\ UNCHANGED <<maskVars, attnVars, ctorVars, stackVars>>

PosSin ==
    /\ pc = "pos_angles"
    /\ angles_rad' = AssignEvenColumns(angles_rad)
    /\ pc' = "pos_sin"
    /\ UNCHANGED <<num_words, embed_dim, pos_encoding, first_table, calls>>
    /\ UNCHANGED <<maskVars, attnVars, ctorVars, stackVars>>

PosCos ==
    /\ pc = "pos_sin"
    /\ angles_rad' = AssignOddColumns(angles_rad)
    /\ pc' = "pos_cos"
    /\ UNCHANGED <<num_words, embed_dim, pos_encoding, first_table, calls>>
    /\ UNCHANGED <<maskVars, attnVars, ctorVars, stackVars>>

PosReturn ==
    /\ pc = "pos_cos"
    /\ pos_encoding' = CastNewAxis(angles_rad)
    /\ calls' = calls + 1
    /\ pc' = "pos_returned"
    /\ UNCHANGED <<num_words, embed_dim, angles_rad, first_table>>
    /\ UNCHANGED <<maskVars, attnVars, ctorVars, stackVars>>

\* a second call with the same arguments
PosCallAgain ==
    /\ pc = "pos_returned"
    /\ calls = 1
    /\ first_table' = pos_encoding
    /\ pos_encoding' = None
    /\ angles_rad' = None
    /\ pc' = "pos_start"
    /\ UNCHANGED <<num_words, embed_dim, calls>>
    /\ UNCHANGED <<maskVars, attnVars, ctorVars, stackVars>>

NextPos ==
    \/ PosGetAngles
    \/ PosSin
    \/ PosCos
    \/ PosReturn
    \/ PosCallAgain

(***************************************************************************)
(* Construction of the layers.  A constructor returns the object or the    *)
(* exception it raises.  name stands for the identity of the object: two   *)
(* layers with different names own different parameters.                   *)
(***************************************************************************)
MaxDModel == 4
MaxHeads == 3
MaxLayers == 2
MaxBatch == 2
MaxLen == 2

AssertionError == [error |-> "AssertionError"]

IsError(o) ==
    "error" \in DOMAIN o

\* the first exception raised while the elements of objs were built, if any
FirstError(objs) ==
    IF \E n \in DOMAIN objs : IsError(objs[n])
    THEN objs[CHOOSE n \in DOMAIN objs :
                  /\ IsError(objs[n])
                  /\ \A m \in 1..(n - 1) : ~IsError(objs[m])]
    ELSE None

\* tf.keras.layers.Dense(units, activation)
Dense_init(units, activation, name) ==
    [class |-> "Dense", units |-> units, activation |-> activation, name |-> name]

\* tf.keras.layers.Embedding(input_dim, output_dim)
Embedding_init(input_dim, output_dim, name) ==
    [class |-> "Embedding", input_dim |-> input_dim, output_dim |-> output_dim,
     name |-> name]

\* the constructor with the assert left out
MultiHeadAttention_init_no_assert(d_model, num_heads, name) ==
    [class     |-> "MultiHeadAttention",
     num_heads |-> num_heads,
     d_model   |-> d_model,
     depth     |-> d_model \div num_heads,
     wq        |-> Dense_init(d_model, "linear", <<name, "wq">>),
     wk        |-> Dense_init(d_model, "linear", <<name, "wk">>),
     wv        |-> Dense_init(d_model, "linear", <<name, "wv">>),
     dense     |-> Dense_init(d_model, "linear", <<name, "dense">>)]

MultiHeadAttention_init(d_model, num_heads, name) ==
    IF d_model % num_heads # 0 THEN AssertionError
    ELSE [class     |-> "MultiHeadAttention",
          num_heads |-> num_heads,
          d_model   |-> d_model,
          depth     |-> d_model \div num_heads,
          wq        |-> Dense_init(d_model, "linear", <<name, "wq">>),
          wk        |-> Dense_init(d_model, "linear", <<name, "wk">>),
          wv        |-> Dense_init(d_model, "linear", <<name, "wv">>),
          dense     |-> Dense_init(d_model, "linear", <<name, "dense">>)]

\* the second layer given the width of the first
FullyConnected_wrong_units(embedding_dim, fully_connected_dim, name) ==
    [class  |-> "Sequential",
     layers |-> <<Dense_init(fully_connected_dim, "relu", <<name, "ffn1">>),
                  Dense_init(fully_connected_dim, "linear", <<name, "ffn2">>)>>]

FullyConnected(embedding_dim, fully_connected_dim, name) ==
    [class  |-> "Sequential",
     layers |-> <<Dense_init(fully_connected_dim, "relu", <<name, "ffn1">>),
                  Dense_init(embedding_dim, "linear", <<name, "ffn2">>)>>]

EncoderLayer_init(embedding_dim, num_heads, fully_connected_dim, name) ==
    LET mha == MultiHeadAttention_init(embedding_dim, num_heads, <<name, "mha">>)
    IN  IF IsError(mha) THEN mha
        ELSE [class      |-> "EncoderLayer",
              mha        |-> mha,
              ffn        |-> FullyConnected(embedding_dim, fully_connected_dim, name),
              layernorm1 |-> <<name, "layernorm1">>,
              layernorm2 |-> <<name, "layernorm2">>]

DecoderLayer_init(embedding_dim, num_heads, fully_connected_dim, name) ==
    LET mha1 == MultiHeadAttention_init(embedding_dim, num_heads, <<name, "mha1">>)
        mha2 == MultiHeadAttention_init(embedding_dim, num_heads, <<name, "mha2">>)
    IN  IF IsError(mha1) THEN mha1
        ELSE IF IsError(mha2) THEN mha2
        ELSE [class      |-> "DecoderLayer",
              mha1       |-> mha1,
              mha2       |-> mha2,
              ffn        |-> FullyConnected(embedding_dim, fully_connected_dim, name),
              layernorm1 |-> <<name, "layernorm1">>,
              layernorm2 |-> <<name, "layernorm2">>,
              layernorm3 |-> <<name, "layernorm3">>]

Encoder_init(num_layers, embedding_dim, num_heads, fully_connected_dim, input_vocab_size, maximum_position_encoding, name) ==
    LET enc_layers == Tuple([n \in 1..num_layers |->
                                EncoderLayer_init(embedding_dim, num_heads,
                                                  fully_connected_dim, <<name, n>>)])
    IN  IF FirstError(enc_layers) # None THEN FirstError(enc_layers)
        ELSE [class         |-> "Encoder",
              embedding_dim |-> embedding_dim,
              num_layers    |-> num_layers,
              embedding     |-> Embedding_init(input_vocab_size, embedding_dim,
                                                <<name, "embedding">>),
              pos_encoding  |-> get_positional_encodings(maximum_position_encoding,
                                                         embedding_dim),
              enc_layers    |-> enc_layers]

Decoder_init(num_layers, embedding_dim, num_heads, fully_connected_dim, target_vocab_size, maximum_position_encoding, name) ==
    LET dec_layers == Tuple([n \in 1..num_layers |->
                                DecoderLayer_init(embedding_dim, num_heads,
                                                  fully_connected_dim, <<name, n>>)])
    IN  IF FirstError(dec_layers) # None THEN FirstError(dec_layers)
        ELSE [class         |-> "Decoder",
              embedding_dim |-> embedding_dim,
              num_layers    |-> num_layers,
              embedding     |-> Embedding_init(target_vocab_size, embedding_dim,
                                                <<name, "embedding">>),
              pos_encoding  |-> get_positional_encodings(maximum_position_encoding,
                                                         embedding_dim),
              dec_layers    |-> dec_layers]

Transformer_init(num_layers, embedding_dim, num_heads, fully_connected_dim, input_vocab_size, target_vocab_size, max_positional_encoding_input, max_positional_encoding_target) ==
    LET encoder == Encoder_init(num_layers, embedding_dim, num_heads,
                                fully_connected_dim, input_vocab_size,
                                max_positional_encoding_input, "encoder")
        decoder == Decoder_init(num_layers, embedding_dim, num_heads,
                                fully_connected_dim, target_vocab_size,
                                max_positional_encoding_target, "decoder")
    IN  IF IsError(encoder) THEN encoder
        ELSE IF IsError(decoder) THEN decoder
        ELSE [class       |-> "Transformer",
              encoder     |-> encoder,
              decoder     |-> decoder,
              final_layer |-> Dense_init(target_vocab_size, "softmax",
                                         <<"final_layer">>)]

\* the reshape made straight to (batch, heads, -1, depth), without the transpose
split_heads_reshape_only(self, xx, batch_size) ==
    Reshape(xx, <<batch_size, self.num_heads, -1, self.depth>>)

split_heads(self, xx, batch_size) ==
    Transpose(Reshape(xx, <<batch_size, -1, self.num_heads, self.depth>>),
              <<0, 2, 1, 3>>)

\* the recombination of MultiHeadAttention.call: transpose, then reshape
concat_heads(self, scaled_attention, batch_size) ==
    Reshape(Transpose(scaled_attention, <<0, 2, 1, 3>>),
            <<batch_size, -1, self.d_model>>)

\* the tensor of this shape whose elements are 1, 2, 3, ... in row-major order
Iota(shape) ==
    [shape |-> shape, data |-> Tuple([n \in 1..Prod(shape) |-> n])]

Classes ==
    {"MultiHeadAttention", "EncoderLayer", "DecoderLayer",
     "Encoder", "Decoder", "Transformer"}

Stacks ==
    {"Encoder", "Decoder", "Transformer"}

\* what the constructor call c returns or raises
Construct(c) ==
    CASE c.class = "MultiHeadAttention" ->
             MultiHeadAttention_init(c.d_model, c.num_heads, "mha")
      [] c.class = "EncoderLayer" ->
             EncoderLayer_init(c.d_model, c.num_heads, 8, "encoder_layer")
      [] c.class = "DecoderLayer" ->
             DecoderLayer_init(c.d_model, c.num_heads, 8, "decoder_layer")
      [] c.class = "Encoder" ->
             Encoder_init(c.num_layers, c.d_model, c.num_heads, 8,
                          Cardinality(TokenIds), c.max_pos, "encoder")
      [] c.class = "Decoder" ->
             Decoder_init(c.num_layers, c.d_model, c.num_heads, 8,
                          Cardinality(TokenIds), c.max_pos, "decoder")
      [] c.class = "Transformer" ->
             Transformer_init(c.num_layers, c.d_model, c.num_heads, 8,
                              Cardinality(TokenIds), Cardinality(TokenIds),
                              c.max_pos, c.max_pos)

(***************************************************************************)
(* The forward pass.                                                       *)
(*                                                                         *)
(* An activation tensor is held by rows: [shape, rows], where rows lists,  *)
(* in row-major order of the leading axes, the vectors along the last      *)
(* axis.  A vector is an expression <<op, ...>> over the inputs and the    *)
(* layers' parameters (a layer's name stands for its parameters).  values  *)
(* lists the distinct vectors computed so far and <<"id", n>> refers to    *)
(* values[n], so two rows are the same vector exactly when they are the    *)
(* same reference.  <<"head", h, depth, r>> stands for the features        *)
(* h * depth .. h * depth + depth - 1 of r, which is what split_heads      *)
(* selects.  Attention weights are held by elements, as expressions.       *)
(*                                                                         *)
(* A masked score is -1e9 in float32 whatever the score was, and its       *)
(* exponential relative to an unmasked score of the row is 0, so a masked  *)
(* key has weight <<"zero">> and the other weights are a softmax over the  *)
(* unmasked scores only; a row whose keys are all masked has the uniform   *)
(* weights (see scaled_dot_product_attention above).  Dropout is           *)
(* modelled for training = False only, where it returns its input.         *)
(***************************************************************************)
ShapeError == [error |-> "InvalidArgumentError"]

\* the shape without its last axis
Lead(shape) ==
    SubSeq(shape, 1, Len(shape) - 1)

\* the size of the last axis
Width(t) ==
    t.shape[Len(t.shape)]

\* the row at a multi-index over the leading axes, read with broadcasting
RowAtBroadcast(t, idx) ==
    t.rows[Ravel([d \in 1..Len(idx) |-> IF t.shape[d] = 1 THEN 0 ELSE idx[d]],
                 Lead(t.shape)) + 1]

\* the tensor whose rows are F of the rows of t, of the given width
MapRows(t, width, F(_)) ==
    IF IsError(t) THEN t
    ELSE [shape |-> Lead(t.shape) \o <<width>>,
          rows  |-> Tuple([n \in DOMAIN t.rows |-> F(t.rows[n])])]

\* t under a shape of the given rank, with leading axes of size 1
Promote(t, rank) ==
    [shape |-> Tuple([d \in 1..rank |->
                         IF d <= rank - Len(t.shape) THEN 1
                         ELSE t.shape[d - (rank - Len(t.shape))]]),
     data  |-> t.data]

\* the rows of a tensor; an operation that failed has produced none
RowsOf(t) ==
    IF IsError(t) THEN <<>> ELSE t.rows

RECURSIVE AllRows(_)
AllRows(ts) ==
    IF ts = <<>> THEN <<>> ELSE RowsOf(Head(ts)) \o AllRows(Tail(ts))

\* the table extended by the vector r if it does not hold it yet
Extend(r, table) ==
    IF \E n \in DOMAIN table : table[n] = r THEN table ELSE Append(table, r)

RECURSIVE InternRows(_, _)
InternRows(rows, table) ==
    IF rows = <<>> THEN table
    ELSE InternRows(Tail(rows), Extend(Head(rows), table))

\* the tensor t with each row replaced by its reference in the table
Refs(t, table) ==
    IF IsError(t) THEN t
    ELSE [shape |-> t.shape,
          rows  |-> Tuple([n \in DOMAIN t.rows |->
                              <<"id", CHOOSE m \in DOMAIN table :
                                          table[m] = t.rows[n]>>])]

\* the tensors ts with their rows replaced by references into the table,
\* which holds all of them
WithRefs(ts, table) ==
    [ts |-> Tuple([n \in DOMAIN ts |-> Refs(ts[n], table)]), values |-> table]

\* the tensors ts held by reference, and the table extended by their rows
InternAll(ts, table) ==
    WithRefs(ts, InternRows(AllRows(ts), table))

\* the tensor t held by reference, and the table extended by its rows
WithRef(t, table) ==
    [t |-> Refs(t, table), values |-> table]

Intern(t, table) ==
    WithRef(t, InternRows(RowsOf(t), table))

\* tf.keras.layers.Embedding applied to a tensor of token ids
Embedding_call(self, tokens) ==
    [shape |-> tokens.shape \o <<self.output_dim>>,
     rows  |-> Tuple([n \in DOMAIN tokens.data |->
                         <<"Embedding", self.name, tokens.data[n]>>])]

\* x *= tf.math.sqrt(tf.cast(embedding_dim, tf.float32))
ScaleBySqrt(t, embedding_dim) ==
    MapRows(t, Width(t), LAMBDA r : <<"mul", r, <<"sqrt", embedding_dim>>>>)

\* table[:, :seq_len, :] held by rows: the slice stops at the end of the table
SlicePositions(table, seq_len) ==
    LET n == IF seq_len < table.shape[2] THEN seq_len ELSE table.shape[2]
    IN  [shape |-> <<1, n, table.shape[3]>>,
         rows  |-> Tuple([p \in 1..n |->
                             <<"pos", Tuple([c \in 1..table.shape[3] |->
                                                At(table, <<0, p - 1, c - 1>>)])>>])]

\* a + b for tensors that broadcast to the given shape
AddRows(a, b, shape) ==
    [shape |-> shape,
     rows  |-> Tuple([n \in 1..Prod(Lead(shape)) |->
                         <<"add",
                           RowAtBroadcast(a, Unravel(n - 1, Lead(shape))),
                           RowAtBroadcast(b, Unravel(n - 1, Lead(shape)))>>])]

\* a + b with broadcasting
Add(a, b) ==
    IF IsError(a) THEN a
    ELSE IF IsError(b) THEN b
    ELSE IF ~Broadcastable(a.shape, b.shape) THEN ShapeError
    ELSE AddRows(a, b, BroadcastShape(a.shape, b.shape))

\* a Dense layer applied along the last axis
Dense_call(self, t) ==
    MapRows(t, self.units, LAMBDA r : <<"Dense", self.name, self.activation, r>>)

\* a Sequential model of two layers
Sequential_call(self, t) ==
    Dense_call(self.layers[2], Dense_call(self.layers[1], t))

\* a Dropout layer; with training = False it returns its input
Dropout_call(t, training) ==
    IF training THEN MapRows(t, Width(t), LAMBDA r : <<"Dropout", r>>) ELSE t

\* a LayerNormalization layer: each row normalized over the last axis
LayerNormalization_call(self, t) ==
    MapRows(t, Width(t), LAMBDA r : <<"LayerNormalization", self, r>>)

\* tf.reshape(x, (batch_size, -1, num_heads, depth)) of a tensor of width
\* num_heads * depth: each row is cut into num_heads rows
ReshapeHeads(t, batch_size, num_heads, depth) ==
    IF IsError(t) THEN t
    ELSE IF \/ Width(t) # num_heads * depth
            \/ Len(t.rows) % batch_size # 0
    THEN ShapeError
    ELSE [shape |-> <<batch_size, Len(t.rows) \div batch_size, num_heads, depth>>,
          rows  |-> Tuple([n \in 1..(Len(t.rows) * num_heads) |->
                              <<"head", (n - 1) % num_heads, depth,
                                t.rows[((n - 1) \div num_heads) + 1]>>])]

\* the tensor of rows of this width whose leading axes are the tensor t
WithWidth(t, width) ==
    [shape |-> t.shape \o <<width>>, rows |-> t.data]

\* tf.transpose(t, perm) for a perm that leaves the last axis in place
TransposeRows(t, perm) ==
    IF IsError(t) THEN t
    ELSE WithWidth(Transpose([shape |-> Lead(t.shape), data |-> t.rows], Lead(perm)),
                   Width(t))

\* split_heads on a tensor held by rows
split_heads_rows(self, t, batch_size) ==
    TransposeRows(ReshapeHeads(t, batch_size, self.num_heads, self.depth),
                  <<0, 2, 1, 3>>)

\* tf.reshape(scaled_attention, (batch_size, -1, d_model)) of a tensor of
\* shape (batch, length, num_heads, depth) with num_heads * depth = d_model:
\* the rows of the heads of one position are concatenated
ReshapeConcat(t, batch_size, d_model) ==
    IF IsError(t) THEN t
    ELSE IF \/ t.shape[3] * t.shape[4] # d_model
            \/ (t.shape[1] * t.shape[2]) % batch_size # 0
    THEN ShapeError
    ELSE [shape |-> <<batch_size, (t.shape[1] * t.shape[2]) \div batch_size, d_model>>,
          rows  |-> Tuple([n \in 1..(t.shape[1] * t.shape[2]) |->
                              <<"concat", SubSeq(t.rows, (n - 1) * t.shape[3] + 1,
                                                 n * t.shape[3])>>])]

\* the mask never applied
IsMasked_never(mm, shape, idx) ==
    FALSE

\* whether the mask forbids the score at idx of a score tensor of this shape
IsMasked(mm, shape, idx) ==
    AtBroadcast(Promote(mm, Len(shape)), idx) = 1

\* whether tf.matmul(q, k, transpose_b=True), the addition of the mask and
\* tf.matmul(attention_weights, v) accept these shapes (a mask that would
\* broadcast the scores to a larger shape is not modelled)
AttentionShapesOk(qq, kk, vv, mm) ==
    /\ Len(qq.shape) = Len(kk.shape) /\ Len(kk.shape) = Len(vv.shape)
    /\ Lead(Lead(qq.shape)) = Lead(Lead(kk.shape))
    /\ Lead(Lead(kk.shape)) = Lead(Lead(vv.shape))
    /\ Width(qq) = Width(kk)
    /\ kk.shape[Len(kk.shape) - 1] = vv.shape[Len(vv.shape) - 1]
    /\ mm # None =>
           /\ Len(mm.shape) <= Len(qq.shape)
           /\ Broadcastable(Lead(qq.shape) \o <<kk.shape[Len(kk.shape) - 1]>>,
                            Promote(mm, Len(qq.shape)).shape)
           /\ BroadcastShape(Lead(qq.shape) \o <<kk.shape[Len(kk.shape) - 1]>>,
                             Promote(mm, Len(qq.shape)).shape)
                  = Lead(qq.shape) \o <<kk.shape[Len(kk.shape) - 1]>>

\* the scaled score of the query and the key that idx pairs
ScoreAt(qq, kk, idx) ==
    <<"div",
      <<"dot", RowAtBroadcast(qq, Lead(idx)),
               RowAtBroadcast(kk, Lead(Lead(idx)) \o <<idx[Len(idx)]>>)>>,
      <<"sqrt", Width(kk)>>>>

\* tf.matmul(q, k, transpose_b=True) / tf.math.sqrt(dk), held by elements
ScaledScores(qq, kk) ==
    MkTensor(Lead(qq.shape) \o <<kk.shape[Len(kk.shape) - 1]>>,
             LAMBDA idx : ScoreAt(qq, kk, idx))

\* scaled_attention_scores += (mask * -1e9): a masked score is <<"masked">>
AddMask(scores, mm) ==
    IF mm = None THEN scores
    ELSE MkTensor(scores.shape,
                  LAMBDA idx : IF IsMasked(mm, scores.shape, idx)
                               THEN <<"masked">> ELSE At(scores, idx))

\* the softmax of one row of scores
SoftmaxRow(row) ==
    IF \A j \in DOMAIN row : row[j] = <<"masked">>
    THEN Tuple([j \in DOMAIN row |-> <<"uniform", Len(row)>>])
    ELSE Tuple([j \in DOMAIN row |->
                   IF row[j] = <<"masked">> THEN <<"zero">>
                   ELSE <<"softmax", row[j],
                          SelectSeq(row, LAMBDA e : e # <<"masked">>)>>])

\* the elements of t along the last axis at a multi-index of the other axes
LastAxis(t, idx) ==
    SubSeq(t.data, Ravel(idx \o <<0>>, t.shape) + 1,
           Ravel(idx \o <<0>>, t.shape) + Width(t))

\* tf.nn.softmax(scores, axis=-1)
SoftmaxLastAxis(scores) ==
    MkTensor(scores.shape,
             LAMBDA idx : SoftmaxRow(LastAxis(scores, Lead(idx)))[idx[Len(idx)] + 1])

\* row idx of tf.matmul(attention_weights, v): the values weighted by the
\* weights of the row that are not zero
WeightedRow(weights, vv, idx) ==
    <<"matmul",
      SelectSeq(Tuple([j \in 1..Width(weights) |->
                          <<At(weights, idx \o <<j - 1>>),
                            RowAtBroadcast(vv, Lead(idx) \o <<j - 1>>)>>]),
                LAMBDA p : p[1] # <<"zero">>)>>

\* tf.matmul(attention_weights, v), held by rows
WeightedSum(weights, vv) ==
    [shape |-> Lead(weights.shape) \o <<Width(vv)>>,
     rows  |-> Tuple([n \in 1..Prod(Lead(weights.shape)) |->
                         WeightedRow(weights, vv,
                                     Unravel(n - 1, Lead(weights.shape)))])]

\* the pair scaled_dot_product_attention returns
AttentionResult(weights, vv) ==
    [output |-> WeightedSum(weights, vv), attention_weights |-> weights]

\* scaled_dot_product_attention on tensors held by rows
Attention(qq, kk, vv, mm) ==
    IF IsError(qq) \/ IsError(kk) \/ IsError(vv)
    THEN [output |-> ShapeError, attention_weights |-> ShapeError]
    ELSE IF ~AttentionShapesOk(qq, kk, vv, mm)
    THEN [output |-> ShapeError, attention_weights |-> ShapeError]
    ELSE AttentionResult(SoftmaxLastAxis(AddMask(ScaledScores(qq, kk), mm)), vv)

\* MultiHeadAttention.call from the transpose of scaled_attention on
MultiHeadAttention_output(self, batch_size, att, table) ==
    [output            |-> Dense_call(self.dense,
                                      ReshapeConcat(TransposeRows(att.output,
                                                                  <<0, 2, 1, 3>>),
                                                    batch_size, self.d_model)),
     attention_weights |-> att.attention_weights,
     values            |-> table]

\* MultiHeadAttention.call from split_heads on; qkv holds q, k and v after
\* wq, wk and wv
MultiHeadAttention_heads(self, batch_size, mm, qkv) ==
    MultiHeadAttention_output(
        self, batch_size,
        Attention(split_heads_rows(self, qkv.ts[1], batch_size),
                  split_heads_rows(self, qkv.ts[2], batch_size),
                  split_heads_rows(self, qkv.ts[3], batch_size), mm),
        qkv.values)

\* MultiHeadAttention.call(self, v, k, q, mask); also returns the table
MultiHeadAttention_call(self, vv, kk, qq, mm, table) ==
    MultiHeadAttention_heads(
        self, qq.shape[1], mm,
        InternAll(<<Dense_call(self.wq, qq), Dense_call(self.wk, kk),
                    Dense_call(self.wv, vv)>>, table))

\* EncoderLayer.call: the locals at the return, and the table
EncoderLayer_return(xx, mult_attn_out, encoder_layer_out) ==
    [x                 |-> xx,
     mult_attn_out     |-> mult_attn_out.t,
     encoder_layer_out |-> encoder_layer_out.t,
     values            |-> encoder_layer_out.values]

\* EncoderLayer.call from the feed-forward network on
EncoderLayer_ffn(self, xx, training, mult_attn_out) ==
    EncoderLayer_return(
        xx, mult_attn_out,
        Intern(LayerNormalization_call(
                   self.layernorm2,
                   Add(Dropout_call(Sequential_call(self.ffn, mult_attn_out.t),
                                    training),
                       mult_attn_out.t)),
               mult_attn_out.values))

\* EncoderLayer.call: dropout and layernorm1 on the result of self.mha
EncoderLayer_attention(self, xx, training, mha) ==
    Intern(LayerNormalization_call(self.layernorm1,
                                   Add(xx, Dropout_call(mha.output, training))),
           mha.values)

EncoderLayer_call(self, xx, training, mm, table) ==
    EncoderLayer_ffn(
        self, xx, training,
        EncoderLayer_attention(
            self, xx, training,
            MultiHeadAttention_call(self.mha, xx, xx, xx, mm, table)))

\* the call of the second block with the query passed first
CrossAttention_query_first(self, enc, out1, padding_mask, table) ==
    MultiHeadAttention_call(self.mha2, out1, enc, enc, padding_mask, table)

\* self.mha2(enc_output, enc_output, out1, padding_mask)
CrossAttention(self, enc, out1, padding_mask, table) ==
    MultiHeadAttention_call(self.mha2, enc, enc, out1, padding_mask, table)

\* DecoderLayer.call: the locals at the return, and the table
DecoderLayer_return(xx, enc, block1, block2, out3) ==
    [x                   |-> xx,
     enc_output          |-> enc,
     out1                |-> block1.out1.t,
     attn2               |-> block2.attn2,
     out2                |-> block2.out2.t,
     out3                |-> out3.t,
     attn_weights_block1 |-> block1.attn_weights_block1,
     attn_weights_block2 |-> block2.attn_weights_block2,
     values              |-> out3.values]

\* DecoderLayer.call from the feed-forward network on
DecoderLayer_ffn(self, xx, enc, training, block1, block2) ==
    DecoderLayer_return(
        xx, enc, block1, block2,
        Intern(LayerNormalization_call(
                   self.layernorm3,
                   Add(Dropout_call(Sequential_call(self.ffn, block2.out2.t),
                                    training),
                       block2.out2.t)),
               block2.out2.values))

\* DecoderLayer.call: dropout and layernorm2 on the result of self.mha2
DecoderLayer_block2(self, training, out1, mha2) ==
    [attn2               |-> Dropout_call(mha2.output, training),
     out2                |-> Intern(LayerNormalization_call(
                                        self.layernorm2,
                                        Add(Dropout_call(mha2.output, training),
                                            out1)),
                                    mha2.values),
     attn_weights_block2 |-> mha2.attention_weights]

\* DecoderLayer.call from the second block on
DecoderLayer_cross(self, xx, enc, training, padding_mask, block1) ==
    DecoderLayer_ffn(
        self, xx, enc, training, block1,
        DecoderLayer_block2(
            self, training, block1.out1.t,
            CrossAttention(self, enc, block1.out1.t, padding_mask,
                           block1.out1.values)))

\* DecoderLayer.call: dropout and layernorm1 on the result of self.mha1
DecoderLayer_block1(self, xx, training, mha1) ==
    [out1                |-> Intern(LayerNormalization_call(
                                        self.layernorm1,
                                        Add(Dropout_call(mha1.output, training),
                                            xx)),
                                    mha1.values),
     attn_weights_block1 |-> mha1.attention_weights]

DecoderLayer_call(self, xx, enc, training, la_mask, padding_mask, table) ==
    DecoderLayer_cross(
        self, xx, enc, training, padding_mask,
        DecoderLayer_block1(
            self, xx, training,
            MultiHeadAttention_call(self.mha1, xx, xx, xx, la_mask, table)))

\* the table computed again on each call, for the length of the input
Encoder_call_attributes_regenerated(self, tokens) ==
    [self EXCEPT !.pos_encoding =
                     get_positional_encodings(tokens.shape[2], self.embedding_dim)]

\* the attributes of the Encoder after Encoder.call: the call assigns none of
\* them, and the slice and the addition make new tensors
Encoder_call_attributes(self, tokens) ==
    self

\* the table computed again on each call, for the length of the target
Decoder_call_attributes_regenerated(self, tokens) ==
    [self EXCEPT !.pos_encoding =
                     get_positional_encodings(tokens.shape[2], self.embedding_dim)]

\* the attributes of the Decoder after Decoder.call: the call assigns none of
\* them, and the slice and the addition make new tensors
Decoder_call_attributes(self, tokens) ==
    self

\* Encoder.call up to the loop: embedding, scaling, positions, dropout
Encoder_call_begin(self, tokens, training, table) ==
    Intern(Dropout_call(
               Add(ScaleBySqrt(Embedding_call(self.embedding, tokens),
                               self.embedding_dim),
                   SlicePositions(self.pos_encoding, tokens.shape[2])),
               training),
           table)

\* Decoder.call up to the loop: embedding, scaling, positions, dropout
Decoder_call_begin(self, tokens, training, table) ==
    Intern(Dropout_call(
               Add(ScaleBySqrt(Embedding_call(self.embedding, tokens),
                               self.embedding_dim),
                   SlicePositions(self.pos_encoding, tokens.shape[2])),
               training),
           table)

\* a dictionary shared by the calls instead of a new one
NewDict_shared(h) ==
    IF h = <<>> THEN [ref |-> 1, heap |-> <<<<>>>>] ELSE [ref |-> 1, heap |-> h]

\* attention_weights = {}: a new dictionary object; a dictionary is the
\* sequence of its <<key, value>> items in insertion order
NewDict(h) ==
    [ref |-> Len(h) + 1, heap |-> Append(h, <<>>)]

\* d[key] = value
DictSet(d, key, value) ==
    IF \E n \in DOMAIN d : d[n][1] = key
    THEN Tuple([n \in DOMAIN d |-> IF d[n][1] = key THEN <<key, value>> ELSE d[n]])
    ELSE Append(d, <<key, value>>)

\* 'decoder_layer{}_block1_self_att'.format(n)
Block1Key(n) ==
    "decoder_layer" \o ToString(n) \o "_block1_self_att"

\* 'decoder_layer{}_block2_decenc_att'.format(n)
Block2Key(n) ==
    "decoder_layer" \o ToString(n) \o "_block2_decenc_att"

InitCtor ==
    /\ pc = "ctor_start"
    /\ ctor = None /\ layer = None /\ error = None
    /\ x = None /\ split = None /\ concat_attention = None
    /\ IdleStack
    /\ size = 0 /\ seq = None /\ mask = None
    /\ q = None /\ k = None /\ v = None
    /\ output = None /\ attention_weights = None
    /\ num_words = 0 /\ embed_dim = 0 /\ angles_rad = None
    /\ pos_encoding = None /\ first_table = None /\ calls = 0

\* a constructor call: it returns the object or raises
CallConstructor ==
    /\ pc = "ctor_start"
    /\ \E c \in [class : Classes \ Stacks, d_model : 1..MaxDModel,
                 num_heads : 1..MaxHeads, num_layers : {1}, max_pos : {1}]
            \cup [class : Stacks, d_model : 1..MaxDModel,
                  num_heads : 1..MaxHeads, num_layers : 0..MaxLayers,
                  max_pos : {1, 2}] :
          /\ ctor' = c
          /\ IF IsError(Construct(c))
             THEN /\ layer' = None
                  /\ error' = Construct(c)
                  /\ pc' = "ctor_raised"
             ELSE /\ layer' = Construct(c)
                  /\ error' = None
                  /\ pc' = "ctor_returned"
    /\ UNCHANGED <<x, split, concat_attention>>
    /\ UNCHANGED <<maskVars, attnVars, posVars, stackVars>>

CallSplitHeads ==
    /\ pc = "ctor_returned"
    /\ layer.class = "MultiHeadAttention"
    /\ \E batch \in 1..MaxBatch, len \in 1..MaxLen :
          /\ x' = Iota(<<batch, len, layer.d_model>>)
          /\ split' = split_heads(layer, Iota(<<batch, len, layer.d_model>>), batch)
    /\ pc' = "split_done"
    /\ UNCHANGED <<ctor, layer, error, concat_attention>>
    /\ UNCHANGED <<maskVars, attnVars, posVars, stackVars>>

CallConcatHeads ==
    /\ pc = "split_done"
    /\ concat_attention' = concat_heads(layer, split, x.shape[1])
    /\ pc' = "concat_done"
    /\ UNCHANGED <<ctor, layer, error, x, split>>
    /\ UNCHANGED <<maskVars, attnVars, posVars, stackVars>>

NextCtor ==
    \/ CallConstructor
    \/ CallSplitHeads
    \/ CallConcatHeads

(***************************************************************************)
(* Calls of a single EncoderLayer or DecoderLayer on arbitrary inputs.     *)
(***************************************************************************)
\* the (d_model, num_heads) pairs a layer can be constructed with
LayerConfigs ==
    {c \in [d_model : 1..MaxDModel, num_heads : 1..MaxHeads] :
        c.d_model % c.num_heads = 0}

\* an input tensor of this shape, each row an unknown vector of its own
InputTensor(tag, shape) ==
    [shape |-> shape,
     rows  |-> Tuple([n \in 1..Prod(Lead(shape)) |-> <<"input", tag, n>>])]

\* the padding masks of the token batches of shape (batch, len), and no mask
PaddingMasks(batch, len) ==
    {None} \cup {create_padding_mask([shape |-> <<batch, len>>, data |-> d]) :
                    d \in SeqsOfLen({0, 1}, batch * len)}

InitLayer ==
    /\ pc = "layer_start"
    /\ \E c \in LayerConfigs, batch \in 1..MaxBatch, len \in 1..MaxLen :
          /\ x = InputTensor("x", <<batch, len, c.d_model>>)
          /\ \/ /\ layer = EncoderLayer_init(c.d_model, c.num_heads, 8, "encoder_layer")
                /\ enc_output = None
                /\ enc_padding_mask \in PaddingMasks(batch, len)
                /\ look_ahead_mask = None
                /\ dec_padding_mask = None
             \/ /\ layer = DecoderLayer_init(c.d_model, c.num_heads, 8, "decoder_layer")
                /\ \E input_len \in 1..MaxLen :
                      /\ enc_output = InputTensor("enc_output",
                                                  <<batch, input_len, c.d_model>>)
                      /\ dec_padding_mask \in PaddingMasks(batch, input_len)
                /\ enc_padding_mask = None
                /\ look_ahead_mask \in {None, create_look_ahead_mask(len)}
    /\ values = <<>> /\ locals = None
    /\ transformer = None /\ inp = None /\ tar = None
    /\ layer_i = 0 /\ heap = <<>> /\ blocks = <<>> /\ returned = <<>>
    /\ IdleMask /\ IdleAttn /\ IdlePos
    /\ ctor = None /\ error = None /\ split = None /\ concat_attention = None

CallEncoderLayer ==
    /\ pc = "layer_start"
    /\ layer.class = "EncoderLayer"
    /\ locals' = EncoderLayer_call(layer, x, FALSE, enc_padding_mask, values)
    /\ values' = locals'.values
    /\ pc' = "layer_returned"
    /\ UNCHANGED <<transformer, inp, tar, enc_padding_mask, look_ahead_mask,
                   dec_padding_mask, enc_output, layer_i, heap, blocks, returned>>
    /\ UNCHANGED <<maskVars, attnVars, posVars, ctorVars>>

CallDecoderLayer ==
    /\ pc = "layer_start"
    /\ layer.class = "DecoderLayer"
    /\ locals' = DecoderLayer_call(layer, x, enc_output, FALSE, look_ahead_mask,
                                   dec_padding_mask, values)
    /\ values' = locals'.values
    /\ pc' = "layer_returned"
    /\ UNCHANGED <<transformer, inp, tar, enc_padding_mask, look_ahead_mask,
                   dec_padding_mask, enc_output, layer_i, heap, blocks, returned>>
    /\ UNCHANGED <<maskVars, attnVars, posVars, ctorVars>>

NextLayer ==
    \/ CallEncoderLayer
    \/ CallDecoderLayer

(***************************************************************************)
(* Calls of a Transformer: Transformer.call runs Encoder.call, then        *)
(* Decoder.call, then the final layer.  The loops of Encoder.call and      *)
(* Decoder.call advance one layer per step.  Every call is made with       *)
(* training = False, the padding masks of inp and the look-ahead mask of   *)
(* the length of tar.                                                      *)
(***************************************************************************)
MaxCalls == 2

InputTokens == {0, 1}

TargetTokens == {1, 2}

\* token batches of one sequence: shape (1, len)
Sentences(tokens) ==
    UNION {{[shape |-> <<1, len>>, data |-> d] : d \in SeqsOfLen(tokens, len)} :
              len \in 1..MaxLen}

InitStack ==
    /\ pc = "stack_idle"
    /\ \E c \in {cc \in LayerConfigs : cc.d_model = 2},
          num_layers \in 0..MaxLayers, max_pos \in {1, MaxLen} :
          transformer = Transformer_init(num_layers, c.d_model, c.num_heads, 8,
                                         Cardinality(TokenIds), Cardinality(TokenIds),
                                         max_pos, max_pos)
    /\ inp \in Sentences(InputTokens)
    /\ tar = None
    /\ enc_padding_mask = None /\ look_ahead_mask = None /\ dec_padding_mask = None
    /\ enc_output = None /\ x = None /\ attention_weights = None
    /\ layer_i = 0 /\ heap = <<>> /\ blocks = <<>> /\ returned = <<>>
    /\ values = <<>> /\ locals = None
    /\ IdleMask /\ IdlePos
    /\ q = None /\ k = None /\ v = None /\ output = None
    /\ ctor = None /\ layer = None /\ error = None
    /\ split = None /\ concat_attention = None

\* Transformer.call is entered and calls Encoder.call, which runs up to its loop
EncoderBegin ==
    /\ pc = "stack_idle"
    /\ Len(returned) < MaxCalls
    /\ tar' \in Sentences(TargetTokens)
    /\ enc_padding_mask' = create_padding_mask(inp)
    /\ look_ahead_mask' = create_look_ahead_mask(tar'.shape[2])
    /\ dec_padding_mask' = create_padding_mask(inp)
    /\ \E r \in {Encoder_call_begin(transformer.encoder, inp, FALSE, values)} :
           /\ x' = r.t
           /\ values' = r.values
           /\ pc' = IF IsError(r.t) THEN "stack_raised" ELSE "encoder_loop"
    /\ transformer' = [transformer EXCEPT
                           !.encoder = Encoder_call_attributes(@, inp)]
    /\ layer_i' = 0
    /\ locals' = None
    /\ UNCHANGED <<inp, enc_output, attention_weights, heap, blocks, returned>>
    /\ UNCHANGED <<maskVars, posVars, q, k, v, output>>
    /\ UNCHANGED <<ctor, layer, error, split, concat_attention>>

\* one iteration of the loop of Encoder.call
EncoderLayerStep ==
    /\ pc = "encoder_loop"
    /\ layer_i < transformer.encoder.num_layers
    /\ locals' = EncoderLayer_call(transformer.encoder.enc_layers[layer_i + 1],
                                   x, FALSE, enc_padding_mask, values)
    /\ x' = locals'.encoder_layer_out
    /\ values' = locals'.values
    /\ layer_i' = layer_i + 1
    /\ pc' = IF IsError(locals'.encoder_layer_out) THEN "stack_raised"
             ELSE "encoder_loop"
    /\ UNCHANGED <<transformer, inp, tar, enc_padding_mask, look_ahead_mask,
                   dec_padding_mask, enc_output, attention_weights, heap, blocks,
                   returned>>
    /\ UNCHANGED <<maskVars, posVars, q, k, v, output>>
    /\ UNCHANGED <<ctor, layer, error, split, concat_attention>>

\* Encoder.call returns x, which Transformer.call binds to enc_output
EncoderReturn ==
    /\ pc = "encoder_loop"
    /\ layer_i = transformer.encoder.num_layers
    /\ enc_output' = x
    /\ pc' = "decoder_start"
    /\ UNCHANGED <<transformer, inp, tar, enc_padding_mask, look_ahead_mask,
                   dec_padding_mask, x, attention_weights, layer_i, heap, blocks,
                   returned, values, locals>>
    /\ UNCHANGED <<maskVars, posVars, q, k, v, output>>
    /\ UNCHANGED <<ctor, layer, error, split, concat_attention>>

\* Decoder.call up to its loop
DecoderBegin ==
    /\ pc = "decoder_start"
    /\ \E d \in {NewDict(heap)} :
           /\ attention_weights' = d.ref
           /\ heap' = d.heap
    /\ blocks' = <<>>
    /\ \E r \in {Decoder_call_begin(transformer.decoder, tar, FALSE, values)} :
           /\ x' = r.t
           /\ values' = r.values
           /\ pc' = IF IsError(r.t) THEN "stack_raised" ELSE "decoder_loop"
    /\ transformer' = [transformer EXCEPT
                           !.decoder = Decoder_call_attributes(@, tar)]
    /\ layer_i' = 0
    /\ UNCHANGED <<inp, tar, enc_padding_mask, look_ahead_mask,
                   dec_padding_mask, enc_output, returned, locals>>
    /\ UNCHANGED <<maskVars, posVars, q, k, v, output>>
    /\ UNCHANGED <<ctor, layer, error, split, concat_attention>>

\* one iteration of the loop of Decoder.call
DecoderLayerStep ==
    /\ pc = "decoder_loop"
    /\ layer_i < transformer.decoder.num_layers
    /\ locals' = DecoderLayer_call(transformer.decoder.dec_layers[layer_i + 1],
                                   x, enc_output, FALSE, look_ahead_mask,
                                   dec_padding_mask, values)
    /\ x' = locals'.out3
    /\ values' = locals'.values
    /\ blocks' = Append(blocks, <<locals'.attn_weights_block1,
                                  locals'.attn_weights_block2>>)
    /\ heap' = [heap EXCEPT ![attention_weights] =
                    DictSet(DictSet(@, Block1Key(layer_i + 1),
                                    locals'.attn_weights_block1),
                            Block2Key(layer_i + 1), locals'.attn_weights_block2)]
    /\ layer_i' = layer_i + 1
    /\ pc' = IF IsError(locals'.out3) THEN "stack_raised" ELSE "decoder_loop"
    /\ UNCHANGED <<transformer, inp, tar, enc_padding_mask, look_ahead_mask,
                   dec_padding_mask, enc_output, attention_weights, returned>>
    /\ UNCHANGED <<maskVars, posVars, q, k, v, output>>
    /\ UNCHANGED <<ctor, layer, error, split, concat_attention>>

\* Decoder.call returns (x, attention_weights); Transformer.call applies the
\* final layer and returns
DecoderReturn ==
    /\ pc = "decoder_loop"
    /\ layer_i = transformer.decoder.num_layers
    /\ returned' = Append(returned,
                          [inp               |-> inp,
                           tar               |-> tar,
                           enc_output        |-> enc_output,
                           dec_output        |-> x,
                           attention_weights |-> attention_weights,
                           blocks            |-> blocks,
                           final_output      |-> Dense_call(transformer.final_layer, x)])
    /\ pc' = "stack_idle"
    /\ UNCHANGED <<transformer, inp, tar, enc_padding_mask, look_ahead_mask,
                   dec_padding_mask, enc_output, x, attention_weights, layer_i,
                   heap, blocks, values, locals>>
    /\ UNCHANGED <<maskVars, posVars, q, k, v, output>>
    /\ UNCHANGED <<ctor, layer, error, split, concat_attention>>

NextStack ==
    \/ EncoderBegin
    \/ EncoderLayerStep
    \/ EncoderReturn
    \/ DecoderBegin
    \/ DecoderLayerStep
    \/ DecoderReturn

InitMask ==
    /\ pc = "mask_start"
    /\ size \in 1..MaxSize
    /\ seq \in TokenBatches
    /\ mask = None
    /\ q = None /\ k = None /\ v = None
    /\ output = None /\ attention_weights = None
    /\ num_words = 0 /\ embed_dim = 0 /\ angles_rad = None
    /\ pos_encoding = None /\ first_table = None /\ calls = 0
    /\ ctor = None /\ layer = None /\ error = None
    /\ x = None /\ split = None /\ concat_attention = None
    /\ IdleStack

CallCreateLookAheadMask ==
    /\ pc \in {"mask_start", "padding_done"}
    /\ mask' = create_look_ahead_mask(size)
    /\ pc' = "look_ahead_done"
    /\ UNCHANGED <<size, seq, attnVars, posVars, ctorVars, stackVars>>

CallCreatePaddingMask ==
    /\ pc \in {"mask_start", "look_ahead_done"}
    /\ mask' = create_padding_mask(seq)
    /\ pc' = "padding_done"
    /\ UNCHANGED <<size, seq, attnVars, posVars, ctorVars, stackVars>>

NextMask ==
    \/ CallCreateLookAheadMask
    \/ CallCreatePaddingMask

vars == <<pc, maskVars, attnVars, posVars, ctorVars, stackVars>>

SpecMask == InitMask /\ [][NextMask]_vars

SpecAttn == InitAttn /\ [][NextAttn]_vars

SpecPos == InitPos /\ [][NextPos]_vars

SpecCtor == InitCtor /\ [][NextCtor]_vars

SpecLayer == InitLayer /\ [][NextLayer]_vars

SpecStack == InitStack /\ [][NextStack]_vars

(***************************************************************************)
(* Claims.                                                                 *)
(***************************************************************************)
Indices(n) ==
    0..(n - 1)

\* C1: create_look_ahead_mask(n) is the n x n matrix with entry [i][j] = 1
\* exactly when j > i and 0 otherwise (strictly upper triangular).
C1_LookAheadStrictlyUpper ==
    pc = "look_ahead_done" =>
        /\ mask.shape = <<size, size>>
        /\ \A i \in Indices(size), j \in Indices(size) :
              At(mask, <<i, j>>) = IF j > i THEN 1 ELSE 0

\* the mask of size 3 is [[0,1,1],[0,0,1],[0,0,0]]
C1_Witness ==
    /\ pc = "look_ahead_done"
    /\ size = 3
    /\ mask.data = <<0, 1, 1, 0, 0, 1, 0, 0, 0>>

\* C2: create_padding_mask of a (batch, length) tensor has shape
\* (batch, 1, 1, length) and entry [b][0][0][j] = 1 exactly when token j of
\* sequence b is the pad id 0, and 0 otherwise.
C2_PaddingMaskMarksPad ==
    pc = "padding_done" =>
        /\ mask.shape = <<seq.shape[1], 1, 1, seq.shape[2]>>
        /\ \A b \in Indices(seq.shape[1]), j \in Indices(seq.shape[2]) :
              At(mask, <<b, 0, 0, j>>) = IF At(seq, <<b, j>>) = 0 THEN 1 ELSE 0

\* a batch of two sequences holding pad and non-pad tokens
C2_Witness ==
    /\ pc = "padding_done"
    /\ seq.shape = <<2, 2>>
    /\ seq.data = <<2, 0, 0, 1>>
    /\ mask = [shape |-> <<2, 1, 1, 2>>, data |-> <<0, 1, 1, 0>>]

\* whether the mask forbids key j to query i
Forbidden(i, j) ==
    /\ mask # None
    /\ AtBroadcast(mask, <<i, j>>) = 1

\* a weight (in millionths) below the tolerance 1e-5
NearZero(w) ==
    w <= 10

\* C3 as stated: for every mask, every forbidden (i, j) has weight about 0,
\* also in a row all of whose keys are forbidden.
C3_ForbiddenWeightZeroAllMasks ==
    pc = "attn_done" =>
        \A i \in Indices(q.shape[1]), j \in Indices(k.shape[1]) :
            Forbidden(i, j) => NearZero(At(attention_weights, <<i, j>>))

\* C3 amended: every forbidden (i, j) in a row that has at least one allowed
\* key has weight about 0.
C3_ForbiddenWeightZeroWhenRowHasAllowedKey ==
    pc = "attn_done" =>
        \A i \in Indices(q.shape[1]), j \in Indices(k.shape[1]) :
            (/\ Forbidden(i, j)
             /\ \E jj \in Indices(k.shape[1]) : ~Forbidden(i, jj))
                => NearZero(At(attention_weights, <<i, j>>))

\* a row with a forbidden and an allowed key: the allowed key takes all the
\* weight although the forbidden key has the higher score
C3_Witness ==
    /\ pc = "attn_done"
    /\ mask # None
    /\ mask.shape = <<2, 2>>
    /\ Forbidden(0, 1) /\ ~Forbidden(0, 0)
    /\ At(k, <<1, 0>>) > At(k, <<0, 0>>) /\ At(q, <<0, 0>>) > 0
    /\ At(attention_weights, <<0, 1>>) = 0
    /\ At(attention_weights, <<0, 0>>) = 1000000

\* the angle of position p and column i: p / 10000^(2 * floor(i / 2) / d)
Angle(p, i, d) ==
    [pos |-> p, num |-> 2 * (i \div 2), d |-> d]

ExpectedEntry(p, i, d) ==
    Apply("float32", Apply(IF i % 2 = 0 THEN "sin" ELSE "cos", Angle(p, i, d)))

\* C9: entry [p][i] of the table is sin of the angle of (p, i) for even i
\* and cos of that angle for odd i, each applied once, and a second call
\* with the same arguments returns the same table.
C9_PositionalEncodingTable ==
    pc = "pos_returned" =>
        /\ pos_encoding.shape = <<1, num_words, embed_dim>>
        /\ \A p \in Indices(num_words), i \in Indices(embed_dim) :
              At(pos_encoding, <<0, p, i>>) = ExpectedEntry(p, i, embed_dim)
        /\ calls = 2 => pos_encoding = first_table

\* a second call has returned a table with sine and cosine columns
C9_Witness ==
    /\ pc = "pos_returned"
    /\ calls = 2
    /\ num_words >= 3 /\ embed_dim >= 4
    /\ At(pos_encoding, <<0, 2, 2>>).arg.f = "sin"
    /\ At(pos_encoding, <<0, 2, 3>>).arg.f = "cos"
    /\ At(pos_encoding, <<0, 2, 3>>).arg.arg = [pos |-> 2, num |-> 2, d |-> embed_dim]


\* the MultiHeadAttention objects an object holds
LayerMHAs(o) ==
    CASE o.class = "MultiHeadAttention" -> {o}
      [] o.class = "EncoderLayer" -> {o.mha}
      [] o.class = "DecoderLayer" -> {o.mha1, o.mha2}
      [] OTHER -> {}

StackMHAs(o) ==
    CASE o.class = "Encoder" ->
             UNION {LayerMHAs(o.enc_layers[n]) : n \in DOMAIN o.enc_layers}
      [] o.class = "Decoder" ->
             UNION {LayerMHAs(o.dec_layers[n]) : n \in DOMAIN o.dec_layers}
      [] OTHER -> LayerMHAs(o)

MHAsOf(o) ==
    IF o.class = "Transformer"
    THEN StackMHAs(o.encoder) \cup StackMHAs(o.decoder)
    ELSE StackMHAs(o)

\* the constructor call c constructs at least one MultiHeadAttention
BuiltOnMHA(c) ==
    c.class \in Stacks => c.num_layers >= 1

\* C5: constructing a MultiHeadAttention, or an EncoderLayer, DecoderLayer,
\* Encoder, Decoder or Transformer built on one, with d_model not divisible
\* by num_heads raises an assertion error and returns no object; in every
\* object that is constructed, each MultiHeadAttention has
\* d_model % num_heads = 0 and depth * num_heads = d_model.
C5_IndivisibleDModelFailsConstruction ==
    ctor # None =>
        /\ (BuiltOnMHA(ctor) /\ ctor.d_model % ctor.num_heads # 0)
               => (layer = None /\ error = AssertionError)
        /\ layer # None =>
               \A m \in MHAsOf(layer) :
                   /\ m.d_model % m.num_heads = 0
                   /\ m.depth * m.num_heads = m.d_model

C5_Witness ==
    /\ pc = "ctor_raised"
    /\ ctor.class = "Transformer"
    /\ ctor.d_model = 3 /\ ctor.num_heads = 2 /\ ctor.num_layers = 2
    /\ layer = None /\ error = AssertionError

\* C6: split_heads maps x of shape (batch, seq_len, d_model) to shape
\* (batch, num_heads, seq_len, depth) with
\* split[b][h][s][d] = x[b][s][h * depth + d], and the transpose with
\* perm [0, 2, 1, 3] followed by the reshape to (batch, -1, d_model)
\* gives x back.
C6_SplitHeadsMappingAndRoundTrip ==
    /\ pc \in {"split_done", "concat_done"} =>
           /\ split.shape = <<x.shape[1], layer.num_heads, x.shape[2], layer.depth>>
           /\ \A b \in Indices(x.shape[1]), h \in Indices(layer.num_heads),
                 s \in Indices(x.shape[2]), d \in Indices(layer.depth) :
                  At(split, <<b, h, s, d>>) = At(x, <<b, s, h * layer.depth + d>>)
    /\ pc = "concat_done" => concat_attention = x

C6_Witness ==
    /\ pc = "concat_done"
    /\ x.shape = <<2, 2, 4>>
    /\ layer.num_heads = 2 /\ layer.depth = 2
    /\ concat_attention = x


\* the row of a tensor at a multi-index over its leading axes
RowAt(t, idx) ==
    t.rows[Ravel(idx, Lead(t.shape)) + 1]

\* the reference under which the vector r is held, if it has been computed
RefOf(r) ==
    IF \E n \in DOMAIN values : values[n] = r
    THEN <<"id", CHOOSE n \in DOMAIN values : values[n] = r>>
    ELSE <<"absent">>

\* C4: with the look-ahead mask of the target length, in every decoder layer
\* the self-attention weight of position i on any position j > i is zero,
\* and for any two calls with the same encoder output whose targets agree on
\* positions 0..i the decoder output at position i is the same.
C4_CausalDecoderOutput ==
    /\ \A c \in DOMAIN returned :
          \A n \in DOMAIN returned[c].blocks :
              LET w == returned[c].blocks[n][1]
              IN  \A h \in Indices(w.shape[2]),
                     i \in Indices(w.shape[3]), j \in Indices(w.shape[4]) :
                      j > i => At(w, <<0, h, i, j>>) = <<"zero">>
    /\ \A c1 \in DOMAIN returned, c2 \in DOMAIN returned :
          \A i \in Indices(returned[c1].tar.shape[2]) \cap
                   Indices(returned[c2].tar.shape[2]) :
              (/\ returned[c1].enc_output = returned[c2].enc_output
               /\ \A j \in 0..i : At(returned[c1].tar, <<0, j>>)
                                      = At(returned[c2].tar, <<0, j>>))
                  => RowAt(returned[c1].dec_output, <<0, i>>)
                         = RowAt(returned[c2].dec_output, <<0, i>>)

C4_Witness ==
    /\ Len(returned) = 2
    /\ transformer.decoder.num_layers = 2
    /\ returned[1].tar.data = <<1, 1>>
    /\ returned[2].tar.data = <<1, 2>>
    /\ RowAt(returned[1].dec_output, <<0, 0>>) = RowAt(returned[2].dec_output, <<0, 0>>)
    /\ RowAt(returned[1].dec_output, <<0, 1>>) # RowAt(returned[2].dec_output, <<0, 1>>)

\* C7: the dictionary a call of Decoder returns is an object created in
\* that call; after n iterations of the loop it holds exactly 2n items, the
\* items 2m - 1 and 2m being the block-1 and the block-2 weights that layer
\* m returned in this call under the keys decoder_layer<m>_block1_self_att
\* and decoder_layer<m>_block2_decenc_att; a returned dictionary holds 2N
\* items and is not changed by a later call.
C7_AttentionWeightsDictionary ==
    /\ pc = "decoder_loop" =>
           /\ Len(heap[attention_weights]) = 2 * layer_i
           /\ Len(blocks) = layer_i
           /\ \A m \in 1..layer_i :
                  /\ heap[attention_weights][2 * m - 1]
                         = <<"decoder_layer" \o ToString(m) \o "_block1_self_att",
                             blocks[m][1]>>
                  /\ heap[attention_weights][2 * m]
                         = <<"decoder_layer" \o ToString(m) \o "_block2_decenc_att",
                             blocks[m][2]>>
    /\ \A c \in DOMAIN returned :
           LET d == heap[returned[c].attention_weights]
               N == transformer.decoder.num_layers
           IN  /\ Len(d) = 2 * N
               /\ \A m \in 1..N :
                      /\ d[2 * m - 1]
                             = <<"decoder_layer" \o ToString(m) \o "_block1_self_att",
                                 returned[c].blocks[m][1]>>
                      /\ d[2 * m]
                             = <<"decoder_layer" \o ToString(m) \o "_block2_decenc_att",
                                 returned[c].blocks[m][2]>>
    /\ \A c1 \in DOMAIN returned, c2 \in DOMAIN returned :
           c1 # c2 => returned[c1].attention_weights # returned[c2].attention_weights
    /\ pc = "decoder_loop" =>
           \A c \in DOMAIN returned : returned[c].attention_weights # attention_weights

C7_Witness ==
    /\ Len(returned) = 2
    /\ transformer.decoder.num_layers = 2
    /\ Len(heap[returned[1].attention_weights]) = 4
    /\ Len(heap[returned[2].attention_weights]) = 4
    /\ returned[1].attention_weights # returned[2].attention_weights
    /\ heap[returned[1].attention_weights] # heap[returned[2].attention_weights]

\* C8: EncoderLayer.call and DecoderLayer.call return a tensor of exactly
\* the shape of their input x, whatever the length of the encoder output.
C8_LayerOutputShapeEqualsInputShape ==
    pc = "layer_returned" =>
        /\ layer.class = "EncoderLayer" =>
               /\ ~IsError(locals.encoder_layer_out)
               /\ locals.encoder_layer_out.shape = x.shape
               /\ Len(locals.encoder_layer_out.rows) = Prod(Lead(x.shape))
        /\ layer.class = "DecoderLayer" =>
               /\ ~IsError(locals.out3)
               /\ locals.out3.shape = x.shape
               /\ Len(locals.out3.rows) = Prod(Lead(x.shape))

C8_Witness ==
    /\ pc = "layer_returned"
    /\ layer.class = "DecoderLayer"
    /\ x.shape = <<2, 2, 4>>
    /\ enc_output.shape = <<2, 1, 4>>
    /\ locals.out3.shape = <<2, 2, 4>>

\* C10: in the second block of DecoderLayer.call the queries are the rows
\* of out1 through wq, the keys and the values the rows of enc_output
\* through wk and wv; the block-2 weights have shape
\* (batch, heads, target_len, input_len) and the block-2 output has shape
\* (batch, target_len, d_model).
C10_CrossAttentionQueryIsOut1 ==
    (pc = "layer_returned" /\ layer.class = "DecoderLayer") =>
        LET w == locals.attn_weights_block2
            self == layer.mha2
            Q(b, i) == RefOf(<<"Dense", self.wq.name, "linear",
                               RowAt(locals.out1, <<b, i>>)>>)
            K(b, j) == RefOf(<<"Dense", self.wk.name, "linear",
                               RowAt(enc_output, <<b, j>>)>>)
            V(b, j) == RefOf(<<"Dense", self.wv.name, "linear",
                               RowAt(enc_output, <<b, j>>)>>)
            Score(b, h, i, j) ==
                <<"div", <<"dot", <<"head", h, self.depth, Q(b, i)>>,
                                  <<"head", h, self.depth, K(b, j)>>>>,
                  <<"sqrt", self.depth>>>>
            Keys(b, h, i) ==
                SelectSeq(Tuple([j \in 1..enc_output.shape[2] |-> j - 1]),
                          LAMBDA j : At(w, <<b, h, i, j>>) # <<"zero">>)
            HeadOut(b, h, i) ==
                <<"matmul", Tuple([n \in 1..Len(Keys(b, h, i)) |->
                                      <<At(w, <<b, h, i, Keys(b, h, i)[n]>>),
                                        <<"head", h, self.depth,
                                          V(b, Keys(b, h, i)[n])>>>>])>>
        IN  /\ ~IsError(w) /\ ~IsError(locals.attn2)
            /\ w.shape = <<x.shape[1], self.num_heads, x.shape[2], enc_output.shape[2]>>
            /\ locals.attn2.shape = <<x.shape[1], x.shape[2], self.d_model>>
            /\ \A b \in Indices(x.shape[1]), i \in Indices(x.shape[2]) :
                   /\ \A h \in Indices(self.num_heads),
                         j \in Indices(enc_output.shape[2]) :
                          At(w, <<b, h, i, j>>)[1] = "softmax"
                              => At(w, <<b, h, i, j>>)[2] = Score(b, h, i, j)
                   /\ RowAt(locals.attn2, <<b, i>>)
                          = <<"Dense", self.dense.name, "linear",
                              <<"concat", Tuple([n \in 1..self.num_heads |->
                                                    HeadOut(b, n - 1, i)])>>>>

C10_Witness ==
    /\ pc = "layer_returned"
    /\ layer.class = "DecoderLayer"
    /\ layer.mha2.num_heads = 2
    /\ x.shape = <<2, 2, 4>>
    /\ enc_output.shape = <<2, 1, 4>>
    /\ locals.attn_weights_block2.shape = <<2, 2, 2, 1>>
    /\ locals.attn2.shape = <<2, 2, 4>>


\* whether t is the whole table of its number of rows: entry [p][i] is the
\* sine or cosine of the angle of (p, i) for width d
IsPositionTable(t, d) ==
    /\ Len(t.shape) = 3 /\ t.shape[1] = 1 /\ t.shape[3] = d
    /\ \A p \in Indices(t.shape[2]), i \in Indices(d) :
           At(t, <<0, p, i>>) = ExpectedEntry(p, i, d)

\* C11: the positional encoding table of the Encoder and of the Decoder is
\* the table made at construction: in every state it is the whole table of
\* its maximum position, and no step of a forward call, of whatever
\* sequence length, changes it.
C11_PositionTableMadeOnceNeverChanged ==
    /\ [](/\ IsPositionTable(transformer.encoder.pos_encoding,
                             transformer.encoder.embedding_dim)
          /\ IsPositionTable(transformer.decoder.pos_encoding,
                             transformer.decoder.embedding_dim))
    /\ [][/\ transformer'.encoder.pos_encoding = transformer.encoder.pos_encoding
          /\ transformer'.decoder.pos_encoding = transformer.decoder.pos_encoding]_vars

\* two calls with targets of different lengths have returned, the input is
\* shorter than the table, and the tables have their two rows
C11_Witness ==
    /\ Len(returned) = 2
    /\ returned[1].tar.shape[2] # returned[2].tar.shape[2]
    /\ inp.shape[2] = 1
    /\ transformer.encoder.pos_encoding.shape = <<1, 2, 2>>
    /\ transformer.decoder.pos_encoding.shape = <<1, 2, 2>>
    /\ At(transformer.decoder.pos_encoding, <<0, 1, 1>>) = ExpectedEntry(1, 1, 2)

\* row p of a positional encoding table, as the addition reads it
PositionRow(table, p) ==
    <<"pos", Tuple([c \in 1..table.shape[3] |-> At(table, <<0, p, c - 1>>)])>>

\* whether the tensor t is the scaled embedding of the tokens with, at every
\* position p, row p of the table added
EncodedByPosition(t, tokens, table) ==
    /\ ~IsError(t)
    /\ tokens.shape[2] <= table.shape[2]
    /\ \A b \in Indices(tokens.shape[1]), p \in Indices(tokens.shape[2]) :
           /\ values[RowAt(t, <<b, p>>)[2]][1] = "add"
           /\ values[RowAt(t, <<b, p>>)[2]][3] = PositionRow(table, p)

\* C12: when Encoder.call or Decoder.call has passed the addition of the
\* positional encoding, the sequence is no longer than the table and the
\* code added at position p is row p of the table; a sequence longer than
\* the table, of whatever number of rows, makes the call fail with a shape
\* error instead.
C12_LongSequenceFailsElseRowPAdded ==
    /\ (pc = "encoder_loop" /\ layer_i = 0) =>
           EncodedByPosition(x, inp, transformer.encoder.pos_encoding)
    /\ (pc = "decoder_loop" /\ layer_i = 0) =>
           EncodedByPosition(x, tar, transformer.decoder.pos_encoding)
    /\ pc = "stack_raised" => x = ShapeError

=========================================================================
